---- MODULE Spec2Model ----
(***************************************************************************)
(* Model of jfsh's mpv player control: internal/mpv/mpv.go (version gate,  *)
(* command encoder) and internal/mpv/play.go (playlist build, event loop). *)
(* Items are identified by their index 0..n-1 in the caller's list; an     *)
(* item's streaming URL is identified with that index.  Positions and      *)
(* times are whole seconds, so the float arithmetic of the source is exact *)
(* on every value of the model.                                            *)
(***************************************************************************)
EXTENDS Integers, Sequences, FiniteSets, TLC

\* ---------------------------------------------------------------- bounds
MaxItems == 2        \* longest item list of a full session (Spec)
MaxBuildItems == 4   \* longest item list of the playlist build (SpecBuild)
MaxTime == 5         \* the clock stops advancing here
MaxReportDelay == 1  \* longest a progress report call takes, in seconds
MinStart == 0        \* earliest segment start the server returns, in seconds
MaxStart == 1        \* latest segment start the server returns, in seconds
SegLen == 2          \* length of the segments the server returns, in seconds
MaxSegs == 1         \* most segments in one server response
MaxSubs == 1         \* most external subtitle streams of one item
ShortSession == 0    \* the clock stops here in a session with segments
MaxPlainPos == 0     \* largest time-pos value in a session without segments
MaxVersionLen == 6   \* longest generated version core, in characters

\* ------------------------------------------------------ program constants
TicksPerSecond == 10000000   \* play.go:14, play.go:18
DebounceSeconds == 3         \* play.go:116
NoIndex == -1                \* loadfile built without the index argument
ZeroTime == -1000000         \* time.Time{}: far before every clock value
NoItem == -1
NoTime == -1                 \* history variable sinceReport: no such report

VARIABLES
    pc,                 \* position of Play
    result,             \* what Play returned ("none" while running)
    nItems,             \* len(items)
    index,              \* Play's index argument
    oldMpv,             \* mpv.oldMpv
    playlistIDs,        \* play.go:45
    i,                  \* loop variable of the append / prepend loops
    written,            \* loadfile commands written to the socket, in order
    sendFailed,         \* some loadfile send has failed so far
    item,               \* play.go:78
    pos,                \* play.go:76
    lastProgressUpdate, \* play.go:77
    skippableSegments,  \* play.go:80
    now,                \* the wall clock, in seconds
    out,                \* commands, reports and fetches of the last handler
    sinceReport,        \* history: when the last successful progress report
                        \* completed, NoTime once a seek event was handled
    seekPending,        \* history: a seek event was handled and no numeric
                        \* time-pos update since
    reportGap,          \* history: seconds from the completion of the previous
                        \* successful progress report to the check that let the
                        \* last one through, NoTime if a seek came between
    env,                \* the session's surroundings, each a short session of
                        \* a current player on a server without segments, but:
                        \* "skip", the server has segments; "plain", the
                        \* session is long; "subs", the items have external
                        \* subtitles; "lossy", the player may be old and the
                        \* append / insert-at sends may fail; "seeks", the
                        \* server has segments; "items", the positions vary
                        \* as in "skip"; "retry", the session is long;
                        \* "teardown", the teardown steps may fail
    version,            \* the version banner handed to isOldMpv
    isOld,              \* what isOldMpv returned for it
    failedReports,      \* history, kept in "retry" sessions: progress reports
                        \* that have failed since the last one that succeeded
                        \* (2: two or more)
    teardown,           \* the steps mpv.close has attempted, with their outcomes
    lastIgnored,        \* history, kept in "items" sessions: the line handled
                        \* last was skipped or ignored
    wasCurrent,         \* history, kept in "items" sessions: the items that
                        \* have been the current item so far
    seekTarget,         \* history, kept in "seeks" sessions: where the last
                        \* numeric time-pos update sought to, 0 if it sent no
                        \* seek
    startedSinceStop,   \* history, kept in "items" sessions: a start report was
                        \* attempted and no stop report since
    posStale,           \* history, kept in "items" sessions: the current item
                        \* has not been current before and no numeric time-pos
                        \* update was received since it became current
    atTarget            \* history, kept in "seeks" sessions: the position of
                        \* the last numeric time-pos update was the target of
                        \* the seek sent by the one before it

vars == <<pc, result, nItems, index, oldMpv, playlistIDs, i, written, sendFailed,
          item, pos, lastProgressUpdate, skippableSegments, now, out,
          sinceReport, seekPending, reportGap, env, version, isOld,
          failedReports, teardown, lastIgnored, wasCurrent, seekTarget,
          startedSinceStop, posStale, atTarget>>

buildVars == <<nItems, index, oldMpv, playlistIDs, i, written, sendFailed, env>>
histVars == <<failedReports, teardown, lastIgnored, wasCurrent, seekTarget,
              startedSinceStop, posStale, atTarget>>
loopVars == <<item, pos, lastProgressUpdate, skippableSegments, now, out,
              sinceReport, seekPending, reportGap, histVars>>
versionVars == <<version, isOld>>

\* loopVars without teardown
returnVars == <<item, pos, lastProgressUpdate, skippableSegments, now, out,
                sinceReport, seekPending, reportGap, failedReports, lastIgnored,
                wasCurrent, seekTarget, startedSinceStop, posStale, atTarget>>

\* ------------------------------------------------------- command encoder

\* mpv.send: the write to the socket succeeds or fails
SendOutcomes == BOOLEAN

\* the handles of the player createMpv returns: c.conn, c.cmd and
\* c.cmd.Process are set
Created == [conn |-> TRUE, process |-> TRUE]

TeardownSteps == {"close", "interrupt", "wait", "remove"}

\* the outcomes of conn.Close, Process.Signal, cmd.Wait and os.Remove
CloseOutcomes ==
    IF env = "teardown" THEN [TeardownSteps -> BOOLEAN]
    ELSE {[t \in TeardownSteps |-> TRUE]}

Step(t, ok) == [step |-> t, ok |-> ok[t]]

\* close returning at the first step that fails
close_StopAtFailure(c, ok) ==
    LET all == <<Step("close", ok), Step("interrupt", ok), Step("wait", ok),
                 Step("remove", ok)>>
        failed == { k \in 1..4 : ~all[k].ok }
    IN  IF failed = {} THEN all
        ELSE SubSeq(all, 1, CHOOSE k \in failed : \A h \in failed : k <= h)

\* mpv.close: the steps it attempts on the handles c, given their outcomes
close(c, ok) ==
    (IF c.conn THEN <<Step("close", ok)>> ELSE <<>>)
    \o (IF c.process THEN <<Step("interrupt", ok), Step("wait", ok)>> ELSE <<>>)
    \o <<Step("remove", ok)>>

\* play.go:36: the deferred close runs as Play returns or panics
Deferred == \E ok \in CloseOutcomes : teardown' = close(Created, ok)

\* the same for the append and insert-at sends of the playlist build
BuildSendOutcomes == IF env = "lossy" THEN BOOLEAN ELSE {TRUE}

\* mpv.oldMpv as createMpv may set it
OldOutcomes == IF env = "lossy" THEN BOOLEAN ELSE {FALSE}

\* mpv.playFile
playFile(url) ==
    [op |-> "loadfile", url |-> url, mode |-> "replace",
     idx |-> IF ~oldMpv THEN 0 ELSE NoIndex]

\* appendFile without the version gate: the index argument is always sent
appendFile_AlwaysIndex(url) ==
    [op |-> "loadfile", url |-> url, mode |-> "append", idx |-> 0]

\* mpv.appendFile
appendFile(url) ==
    [op |-> "loadfile", url |-> url, mode |-> "append",
     idx |-> IF ~oldMpv THEN 0 ELSE NoIndex]

\* prependFile with the mode of appendFile
prependFile_Append(url) ==
    IF oldMpv THEN <<>>
    ELSE <<[op |-> "loadfile", url |-> url, mode |-> "append", idx |-> 0]>>

\* mpv.prependFile: the empty sequence when the player is old (refused)
prependFile(url) ==
    IF oldMpv THEN <<>>
    ELSE <<[op |-> "loadfile", url |-> url, mode |-> "insert-at", idx |-> 0]>>

\* ---------------------------------------------------------- version gate
\* Strings are sequences of one-character strings.

Digits == <<"0", "1", "2", "3", "4", "5", "6", "7", "8", "9">>
IsDigit(c) == \E d \in 1..10 : Digits[d] = c
DigitValue(c) == (CHOOSE d \in 1..10 : Digits[d] = c) - 1

\* strings.TrimPrefix(s, "v")
TrimPrefixV(s) == IF Len(s) > 0 /\ s[1] = "v" THEN Tail(s) ELSE s

\* strings.Split(s, sep) for a one-character separator
RECURSIVE Split(_, _)
Split(s, sep) ==
    IF \A k \in 1..Len(s) : s[k] # sep
    THEN <<s>>
    ELSE LET k == CHOOSE j \in 1..Len(s) :
                     s[j] = sep /\ \A h \in 1..(j - 1) : s[h] # sep
         IN  <<SubSeq(s, 1, k - 1)>> \o Split(SubSeq(s, k + 1, Len(s)), sep)

\* strconv.Atoi succeeds: an optional sign, then one or more digits (values
\* stay far below the int range)
AtoiOk(s) ==
    LET body == IF Len(s) > 0 /\ s[1] \in {"+", "-"} THEN Tail(s) ELSE s
    IN  Len(body) > 0 /\ \A k \in 1..Len(body) : IsDigit(body[k])

RECURSIVE DecimalValue(_)
DecimalValue(s) ==
    IF Len(s) = 0 THEN 0
    ELSE 10 * DecimalValue(SubSeq(s, 1, Len(s) - 1)) + DigitValue(s[Len(s)])

\* the value strconv.Atoi returns when it succeeds
Atoi(s) ==
    IF Len(s) > 0 /\ s[1] = "-" THEN 0 - DecimalValue(Tail(s))
    ELSE IF Len(s) > 0 /\ s[1] = "+" THEN DecimalValue(Tail(s))
    ELSE DecimalValue(s)

\* mpv.go:46
target == <<0, 38, 0>>

\* the comparison loop without its "greater than" exit
RECURSIVE CompareFrom_NoGreater(_, _)
CompareFrom_NoGreater(parts, k) ==
    IF k > 3 THEN FALSE
    ELSE IF ~AtoiOk(parts[k]) THEN FALSE
    ELSE IF Atoi(parts[k]) < target[k] THEN TRUE
    ELSE CompareFrom_NoGreater(parts, k + 1)

\* mpv.go:47-61, from component k on
RECURSIVE CompareFrom(_, _)
CompareFrom(parts, k) ==
    IF k > 3 THEN FALSE
    ELSE IF ~AtoiOk(parts[k]) THEN FALSE
    ELSE IF Atoi(parts[k]) < target[k] THEN TRUE
    ELSE IF Atoi(parts[k]) > target[k] THEN FALSE
    ELSE CompareFrom(parts, k + 1)

\* mpv.go:38-39
VersionCore(field) == Split(TrimPrefixV(field), "-")[1]

\* mpv.go:19-62; banner.err: the command failed, banner.newline: its output
\* has a line end, banner.fields: bytes.Fields of the first line
isOldMpv(banner) ==
    IF banner.err THEN FALSE
    ELSE IF ~banner.newline THEN FALSE
    ELSE IF Len(banner.fields) < 2 THEN FALSE
    ELSE LET parts == Split(VersionCore(banner.fields[2]), ".")
         IN  IF Len(parts) # 3 THEN FALSE
             ELSE CompareFrom(parts, 1)

\* generated version cores of up to n characters
VersionCores(n) ==
    UNION { [1..m -> {"0", "3", "8", ".", "x"}] : m \in 0..n }

\* the second field of the banner: a generated core with an optional "v"
\* before and "-x" after, or one of three real version strings
VersionFields(n) ==
    { pre \o core \o suf :
          pre \in {<<>>, <<"v">>}, core \in VersionCores(n), suf \in {<<>>, <<"-", "x">>} }
    \cup { <<"0", ".", "3", "7", ".", "0">>,
           <<"0", ".", "3", "8", ".", "0">>,
           <<"0", ".", "3", "9", ".", "2", "-", "d", "i", "r", "t", "y">> }

Banner(err, newline, fields) == [err |-> err, newline |-> newline, fields |-> fields]

\* the outputs of "mpv --version" handed to isOldMpv
Banners(n) ==
    { Banner(FALSE, TRUE, <<<<"m", "p", "v">>, v, <<"C">>>>) : v \in VersionFields(n) }
    \cup { Banner(e, nl, f) :
              e \in BOOLEAN, nl \in BOOLEAN,
              f \in { <<>>, <<<<"m", "p", "v">>>>,
                      <<<<"m", "p", "v">>, <<"0", ".", "3", "7", ".", "0">>>> } }

NoBanner == Banner(TRUE, FALSE, <<>>)

\* ------------------------------------------------------- playlist build

InitN(maxN, envs) ==
    /\ env \in envs
    /\ pc = "create"
    /\ result = "none"
    /\ nItems \in 1..maxN
    /\ index \in 0..(nItems - 1)
    /\ oldMpv = FALSE
    /\ playlistIDs = <<>>
    /\ i = 0
    /\ written = <<>>
    /\ sendFailed = FALSE
    /\ item = NoItem
    /\ pos = 0
    /\ lastProgressUpdate = 0
    /\ skippableSegments = [k \in {} |-> 0]
    /\ now = 0
    /\ out = <<>>
    /\ sinceReport = NoTime
    /\ seekPending = FALSE
    /\ reportGap = NoTime
    /\ failedReports = 0
    /\ teardown = <<>>
    /\ lastIgnored = FALSE
    /\ wasCurrent = {}
    /\ seekTarget = 0
    /\ startedSinceStop = FALSE
    /\ posStale = FALSE
    /\ atTarget = FALSE
    /\ version = NoBanner
    /\ isOld = FALSE

Init == InitN(MaxItems, {"skip", "plain", "subs", "lossy"})

InitBuild == InitN(MaxBuildItems, {"lossy"})

\* play.go:32-36: createMpv fails, or yields a player that is old or not
Create ==
    /\ pc = "create"
    /\ \/ /\ pc' = "done"
          /\ result' = "err_create"
          /\ UNCHANGED oldMpv
       \/ /\ pc' = "observe"
          /\ oldMpv' \in OldOutcomes
          /\ UNCHANGED result
    /\ UNCHANGED <<nItems, index, playlistIDs, i, written, sendFailed, env>>
    /\ UNCHANGED loopVars
    /\ UNCHANGED versionVars

\* play.go:39-42
Observe ==
    /\ pc = "observe"
    /\ \E ok \in SendOutcomes :
          IF ok THEN pc' = "play" /\ UNCHANGED <<result, teardown>>
          ELSE pc' = "done" /\ result' = "err_observe" /\ Deferred
    /\ UNCHANGED buildVars
    /\ UNCHANGED returnVars
    /\ UNCHANGED versionVars

\* play.go:47-54
PlayFile ==
    /\ pc = "play"
    /\ \E ok \in SendOutcomes :
          IF ok
          THEN /\ written' = Append(written, playFile(index))
               /\ playlistIDs' = Append(playlistIDs, index)
               /\ i' = index + 1
               /\ pc' = "append"
               /\ UNCHANGED <<result, teardown>>
          ELSE /\ pc' = "done"
               /\ result' = "err_play"
               /\ Deferred
               /\ UNCHANGED <<written, playlistIDs, i>>
    /\ UNCHANGED <<nItems, index, oldMpv, sendFailed, env>>
    /\ UNCHANGED returnVars
    /\ UNCHANGED versionVars

\* AppendFile returning the error of a failed send instead of logging it
AppendFile_Fatal ==
    /\ pc = "append"
    /\ i < nItems
    /\ \E ok \in BuildSendOutcomes :
          IF ok
          THEN /\ written' = Append(written, appendFile(i))
               /\ playlistIDs' = Append(playlistIDs, i)
               /\ i' = i + 1
               /\ UNCHANGED <<pc, result, sendFailed, teardown>>
          ELSE /\ pc' = "done"
               /\ result' = "err_append"
               /\ sendFailed' = TRUE
               /\ Deferred
               /\ UNCHANGED <<written, playlistIDs, i>>
    /\ UNCHANGED <<nItems, index, oldMpv, env>>
    /\ UNCHANGED returnVars
    /\ UNCHANGED versionVars

\* play.go:57-64, one iteration
AppendFile ==
    /\ pc = "append"
    /\ i < nItems
    /\ \E ok \in BuildSendOutcomes :
          /\ written' = IF ok THEN Append(written, appendFile(i)) ELSE written
          /\ sendFailed' = (sendFailed \/ ~ok)
    /\ playlistIDs' = Append(playlistIDs, i)
    /\ i' = i + 1
    /\ UNCHANGED <<pc, result, nItems, index, oldMpv, env>>
    /\ UNCHANGED loopVars
    /\ UNCHANGED versionVars

\* AppendDone entering the prepend loop at index instead of index - 1
AppendDone_FromIndex ==
    /\ pc = "append"
    /\ ~(i < nItems)
    /\ i' = index
    /\ pc' = "prepend"
    /\ UNCHANGED <<result, nItems, index, oldMpv, playlistIDs, written, sendFailed, env>>
    /\ UNCHANGED loopVars
    /\ UNCHANGED versionVars

\* play.go:57 loop exit, play.go:67 loop entry
AppendDone ==
    /\ pc = "append"
    /\ ~(i < nItems)
    /\ i' = index - 1
    /\ pc' = "prepend"
    /\ UNCHANGED <<result, nItems, index, oldMpv, playlistIDs, written, sendFailed, env>>
    /\ UNCHANGED loopVars
    /\ UNCHANGED versionVars

\* play.go:67-74, one iteration
PrependFile ==
    /\ pc = "prepend"
    /\ i >= 0
    /\ \E ok \in BuildSendOutcomes :
          /\ written' = IF ok THEN written \o prependFile(i) ELSE written
          /\ sendFailed' = (sendFailed \/ (~ok /\ ~oldMpv))
          /\ (oldMpv => ok)
    /\ playlistIDs' = Append(playlistIDs, i)
    /\ i' = i - 1
    /\ UNCHANGED <<pc, result, nItems, index, oldMpv, env>>
    /\ UNCHANGED loopVars
    /\ UNCHANGED versionVars

\* play.go:67 loop exit, play.go:76-80
PrependDone ==
    /\ pc = "prepend"
    /\ ~(i >= 0)
    /\ pos' = 0
    /\ lastProgressUpdate' = now
    /\ item' = index
    /\ skippableSegments' = [k \in {} |-> 0]
    /\ pc' = "loop"
    /\ wasCurrent' = IF env = "items" THEN {index} ELSE {}
    /\ posStale' = (env = "items")
    /\ UNCHANGED atTarget
    /\ UNCHANGED <<result, now, out, sinceReport, seekPending, reportGap>>
    /\ UNCHANGED <<failedReports, teardown, lastIgnored, seekTarget, startedSinceStop>>
    /\ UNCHANGED buildVars
    /\ UNCHANGED versionVars

\* ----------------------------------------------------------- event loop

\* play.go:13-15, on whole seconds
secondsToTicks(seconds) == seconds * TicksPerSecond

\* play.go:17-19, on whole seconds
ticksToSeconds(ticks) == ticks \div TicksPerSecond

EmptyMap == [k \in {} |-> 0]

\* the segments (start ticks -> end ticks) of a media server that has some
SomeSegments ==
    { <<secondsToTicks(s), secondsToTicks(s + SegLen)>> : s \in MinStart..MaxStart }

\* the maps GetMediaSegments of such a server may return: unique keys, at
\* most MaxSegs of them
SomeResponses ==
    { [k \in { p[1] : p \in S } |-> (CHOOSE p \in S : p[1] = k)[2]] :
          S \in { T \in SUBSET SomeSegments :
                      /\ Cardinality(T) <= MaxSegs
                      /\ \A p, q \in T : p[1] = q[1] => p = q } }

SegmentResponses == IF env \in {"skip", "seeks"} THEN SomeResponses ELSE {EmptyMap}

\* where the clock stops advancing
ClockMax == IF env \in {"plain", "retry"} THEN MaxTime ELSE ShortSession

\* message as decoded by json.Unmarshal (mpv.go:69-77): absent fields are zero
Msg(event, name, data, id) ==
    [kind |-> "json", event |-> event, name |-> name, data |-> data, id |-> id]

NilData == [t |-> "nil", v |-> 0]

\* the lines the player may write to the socket, time-pos values from P
LinesWith(P) ==
    { [kind |-> k, event |-> "", name |-> "", data |-> NilData, id |-> 0] :
          k \in {"empty", "malformed"} }
    \cup { Msg("property-change", "time-pos", d, 0) :
              d \in {NilData, [t |-> "string", v |-> 0]}
                    \cup { [t |-> "number", v |-> p] : p \in P } }
    \cup { Msg("property-change", "pause", [t |-> "string", v |-> 0], 0) }
    \cup { Msg("start-file", "", NilData, k) : k \in (-1)..(MaxItems + 1) }
    \cup { Msg(e, "", NilData, 0) : e \in {"seek", "end-file", "shutdown", "idle"} }

SkipLines == LinesWith(MinStart..(MaxStart + SegLen))
PlainLines == LinesWith(0..MaxPlainPos)

Lines == IF env \in {"skip", "seeks", "items"} THEN SkipLines ELSE PlainLines

\* one entry of out: a command sent, a report made or a segment fetch done
\* (arg: the seek mode, the sub-add flag, or the event a report was made for)
Effect(t, it, v, ok, arg) == [t |-> t, item |-> it, v |-> v, ok |-> ok, arg |-> arg]

\* mpv.go:124-126
seekTo(it, p, ok) == Effect("seek", it, p, ok, "absolute")

\* mpv.go:162-164
addSubtitle(it, k, ok) == Effect("sub-add", it, k, ok, "auto")

\* isInsideSkippableSegment returning the start of the segment found
isInsideSkippableSegment_Start(segments, p) ==
    LET inside == { s \in DOMAIN segments : p >= s /\ p < segments[s] }
    IN  IF inside = {} THEN {0} ELSE inside

\* isInsideSkippableSegment with the segment's end included
isInsideSkippableSegment_Closed(segments, p) ==
    LET inside == { s \in DOMAIN segments : p >= s /\ p <= segments[s] }
    IN  IF inside = {} THEN {0} ELSE { segments[s] : s \in inside }

\* play.go:21-29: the values the scan may return; Go ranges over a map in an
\* unspecified order, so any segment containing pos may be the one found
isInsideSkippableSegment(segments, p) ==
    LET inside == { s \in DOMAIN segments : p >= s /\ p < segments[s] }
    IN  IF inside = {} THEN {0} ELSE { segments[s] : s \in inside }

\* the debounce test with the interval lost (any later instant passes)
DebounceElapsed_Short(t, last) == t - last > 0

\* play.go:116
DebounceElapsed(t, last) == t - last > DebounceSeconds

\* play.go:152-156: the fetched segments are stored into the session's map
StoreSegments(stored, fetched) ==
    [k \in DOMAIN stored \cup { ticksToSeconds(t) : t \in DOMAIN fetched } |->
        IF \E t \in DOMAIN fetched : ticksToSeconds(t) = k
        THEN ticksToSeconds(fetched[CHOOSE t \in DOMAIN fetched : ticksToSeconds(t) = k])
        ELSE stored[k]]

\* play.go:83-90: an empty or undecodable line is skipped
SkipLine(l) ==
    /\ pc = "loop"
    /\ l.kind \in {"empty", "malformed"}
    /\ out' = <<>>
    /\ UNCHANGED <<pc, result>>
    /\ lastIgnored' = (env = "items")
    /\ UNCHANGED <<item, pos, lastProgressUpdate, skippableSegments, now,
                   sinceReport, seekPending, reportGap>>
    /\ UNCHANGED <<failedReports, teardown, wasCurrent, seekTarget, startedSinceStop,
                   posStale, atTarget>>
    /\ UNCHANGED buildVars
    /\ UNCHANGED versionVars

\* the history failedReports after an update whose report was due or not and
\* did not succeed
FailedReportsAfter(due, reportOk) ==
    IF env = "retry" /\ due /\ ~reportOk
    THEN IF failedReports = 0 THEN 1 ELSE 2
    ELSE failedReports

\* PropertyChange without the continue of play.go:119: a failed report also
\* sets the timestamp
PropertyChange_NoContinue(l) ==
    /\ pc = "loop"
    /\ l.kind = "json"
    /\ l.event = "property-change"
    /\ UNCHANGED <<pc, result, item, skippableSegments>>
    /\ UNCHANGED buildVars
    /\ UNCHANGED versionVars
    /\ UNCHANGED <<teardown, wasCurrent, startedSinceStop>>
    /\ IF l.name = "time-pos" /\ l.data.t = "number"
       THEN /\ pos' = l.data.v
            /\ seekPending' = FALSE
            /\ lastIgnored' = FALSE
            /\ posStale' = FALSE
            /\ atTarget' = (env = "seeks" /\ seekTarget # 0 /\ l.data.v = seekTarget)
            /\ \E end \in isInsideSkippableSegment(skippableSegments, l.data.v),
                  seekOk \in SendOutcomes, reportOk \in BOOLEAN,
                  d \in 0..MaxReportDelay :
                 LET seeks == IF end # 0
                              THEN <<seekTo(item, end, seekOk)>>
                              ELSE <<>>
                     due == DebounceElapsed(now, lastProgressUpdate)
                     reports == IF due
                                THEN <<Effect("progress", item, secondsToTicks(l.data.v),
                                              reportOk, l.name)>>
                                ELSE <<>>
                 IN  /\ out' = seeks \o reports
                     /\ seekTarget' = IF env = "seeks" THEN end ELSE 0
                     /\ (end = 0 => seekOk)
                     /\ IF due
                        THEN /\ now + d <= ClockMax
                             /\ now' = now + d
                             /\ lastProgressUpdate' = now'
                             /\ sinceReport' = now'
                             /\ reportGap' = IF sinceReport = NoTime THEN NoTime
                                             ELSE now - sinceReport
                             /\ failedReports' = IF reportOk THEN 0
                                                 ELSE FailedReportsAfter(due, reportOk)
                        ELSE /\ d = 0
                             /\ (~due => reportOk)
                             /\ UNCHANGED <<now, lastProgressUpdate, sinceReport, reportGap>>
                             /\ failedReports' = FailedReportsAfter(due, reportOk)
       ELSE /\ out' = <<>>
            /\ lastIgnored' = (env = "items")
            /\ UNCHANGED <<pos, now, lastProgressUpdate, sinceReport, seekPending,
                           reportGap, failedReports, seekTarget, posStale, atTarget>>

\* play.go:94-124
PropertyChange(l) ==
    /\ pc = "loop"
    /\ l.kind = "json"
    /\ l.event = "property-change"
    /\ UNCHANGED <<pc, result, item, skippableSegments>>
    /\ UNCHANGED buildVars
    /\ UNCHANGED versionVars
    /\ UNCHANGED <<teardown, wasCurrent, startedSinceStop>>
    /\ IF l.name = "time-pos" /\ l.data.t = "number"
       THEN /\ pos' = l.data.v
            /\ seekPending' = FALSE
            /\ lastIgnored' = FALSE
            /\ posStale' = FALSE
            /\ atTarget' = (env = "seeks" /\ seekTarget # 0 /\ l.data.v = seekTarget)
            /\ \E end \in isInsideSkippableSegment(skippableSegments, l.data.v),
                  seekOk \in SendOutcomes, reportOk \in BOOLEAN,
                  d \in 0..MaxReportDelay :
                 LET seeks == IF end # 0
                              THEN <<seekTo(item, end, seekOk)>>
                              ELSE <<>>
                     due == DebounceElapsed(now, lastProgressUpdate)
                     reports == IF due
                                THEN <<Effect("progress", item, secondsToTicks(l.data.v),
                                              reportOk, l.name)>>
                                ELSE <<>>
                 IN  /\ out' = seeks \o reports
                     /\ seekTarget' = IF env = "seeks" THEN end ELSE 0
                     /\ (end = 0 => seekOk)
                     /\ IF due /\ reportOk
                        THEN /\ now + d <= ClockMax
                             /\ now' = now + d
                             /\ lastProgressUpdate' = now'
                             /\ sinceReport' = now'
                             /\ reportGap' = IF sinceReport = NoTime THEN NoTime
                                             ELSE now - sinceReport
                             /\ failedReports' = 0
                        ELSE /\ d = 0
                             /\ (~due => reportOk)
                             /\ UNCHANGED <<now, lastProgressUpdate, sinceReport, reportGap>>
                             /\ failedReports' = FailedReportsAfter(due, reportOk)
       ELSE /\ out' = <<>>
            /\ lastIgnored' = (env = "items")
            /\ UNCHANGED <<pos, now, lastProgressUpdate, sinceReport, seekPending,
                           reportGap, failedReports, seekTarget, posStale, atTarget>>

\* play.go:126-167, with the outcomes of its calls: the start report, the
\* segment fetch (error and segments returned) and one send per subtitle
StartFileWith(l, startOk, fetchOk, segments, subOk) ==
    /\ pc = "loop"
    /\ l.kind = "json"
    /\ l.event = "start-file"
    /\ LET id == l.id - 1
       IN  IF id >= Len(playlistIDs)
           THEN /\ pc' = "done"
                /\ result' = "err_unknown_playlist_id"
                /\ out' = <<>>
                /\ Deferred
                /\ UNCHANGED <<item, skippableSegments, wasCurrent, startedSinceStop,
                               posStale>>
           ELSE IF id < 0
           THEN \* playlistIDs[id] with a negative index: runtime panic
                /\ pc' = "done"
                /\ result' = "panic"
                /\ out' = <<>>
                /\ Deferred
                /\ UNCHANGED <<item, skippableSegments, wasCurrent, startedSinceStop,
                               posStale>>
           ELSE LET it == playlistIDs[id + 1]
                IN  /\ item' = it
                    /\ skippableSegments' = StoreSegments(skippableSegments, segments)
                    /\ out' = <<Effect("start", it, secondsToTicks(pos), startOk, l.event),
                                Effect("fetch", it, 0, fetchOk, l.event)>>
                              \o [k \in 1..Len(subOk) |-> addSubtitle(it, k, subOk[k])]
                    /\ wasCurrent' = IF env = "items" THEN wasCurrent \cup {it}
                                     ELSE wasCurrent
                    /\ startedSinceStop' = (env = "items")
                    /\ posStale' = (env = "items" /\ it \notin wasCurrent)
                    /\ UNCHANGED <<pc, result, teardown>>
    /\ lastIgnored' = FALSE
    /\ UNCHANGED <<pos, lastProgressUpdate, now, sinceReport, seekPending, reportGap>>
    /\ UNCHANGED <<failedReports, seekTarget, atTarget>>
    /\ UNCHANGED buildVars
    /\ UNCHANGED versionVars

\* what GetMediaSegments may return: an error with no segments, or a map
FetchOutcomes ==
    { <<FALSE, EmptyMap>> } \cup { <<TRUE, m>> : m \in SegmentResponses }

\* one send outcome per external subtitle stream of the item
SomeSubtitleOutcomes == UNION { [1..n -> SendOutcomes] : n \in 0..MaxSubs }

SubtitleOutcomes == IF env = "subs" THEN SomeSubtitleOutcomes ELSE {<<>>}

StartFile(l) ==
    \E startOk \in BOOLEAN, f \in FetchOutcomes, subOk \in SubtitleOutcomes :
       StartFileWith(l, startOk, f[1], f[2], subOk)

\* Seek setting the timestamp to the current time instead of the zero time
Seek_ToNow(l) ==
    /\ pc = "loop"
    /\ l.kind = "json"
    /\ l.event = "seek"
    /\ lastProgressUpdate' = now
    /\ out' = <<>>
    /\ sinceReport' = NoTime
    /\ seekPending' = TRUE
    /\ lastIgnored' = FALSE
    /\ UNCHANGED <<pc, result, item, pos, skippableSegments, now, reportGap>>
    /\ UNCHANGED <<failedReports, teardown, wasCurrent, seekTarget, startedSinceStop,
                   posStale, atTarget>>
    /\ UNCHANGED buildVars
    /\ UNCHANGED versionVars

\* play.go:169-171
Seek(l) ==
    /\ pc = "loop"
    /\ l.kind = "json"
    /\ l.event = "seek"
    /\ lastProgressUpdate' = ZeroTime
    /\ out' = <<>>
    /\ sinceReport' = NoTime
    /\ seekPending' = TRUE
    /\ lastIgnored' = FALSE
    /\ UNCHANGED <<pc, result, item, pos, skippableSegments, now, reportGap>>
    /\ UNCHANGED <<failedReports, teardown, wasCurrent, seekTarget, startedSinceStop,
                   posStale, atTarget>>
    /\ UNCHANGED buildVars
    /\ UNCHANGED versionVars

\* play.go:173-179
EndFileOrShutdown(l) ==
    /\ pc = "loop"
    /\ l.kind = "json"
    /\ l.event \in {"end-file", "shutdown"}
    /\ \E stopOk \in BOOLEAN :
          out' = <<Effect("stop", item, secondsToTicks(pos), stopOk, l.event)>>
    /\ lastIgnored' = FALSE
    /\ startedSinceStop' = FALSE
    /\ UNCHANGED <<pc, result, item, pos, lastProgressUpdate, skippableSegments, now,
                   sinceReport, seekPending, reportGap>>
    /\ UNCHANGED <<failedReports, teardown, wasCurrent, seekTarget, posStale, atTarget>>
    /\ UNCHANGED buildVars
    /\ UNCHANGED versionVars

\* Ignored handling every other event as a seek event
Ignored_AsSeek(l) ==
    /\ pc = "loop"
    /\ l.kind = "json"
    /\ l.event \notin {"property-change", "start-file", "seek", "end-file", "shutdown"}
    /\ out' = <<>>
    /\ lastProgressUpdate' = ZeroTime
    /\ UNCHANGED <<pc, result>>
    /\ lastIgnored' = (env = "items")
    /\ UNCHANGED <<item, pos, skippableSegments, now, sinceReport, seekPending, reportGap>>
    /\ UNCHANGED <<failedReports, teardown, wasCurrent, seekTarget, startedSinceStop,
                   posStale, atTarget>>
    /\ UNCHANGED buildVars
    /\ UNCHANGED versionVars

\* play.go:180-181
Ignored(l) ==
    /\ pc = "loop"
    /\ l.kind = "json"
    /\ l.event \notin {"property-change", "start-file", "seek", "end-file", "shutdown"}
    /\ out' = <<>>
    /\ UNCHANGED <<pc, result>>
    /\ lastIgnored' = (env = "items")
    /\ UNCHANGED <<item, pos, lastProgressUpdate, skippableSegments, now,
                   sinceReport, seekPending, reportGap>>
    /\ UNCHANGED <<failedReports, teardown, wasCurrent, seekTarget, startedSinceStop,
                   posStale, atTarget>>
    /\ UNCHANGED buildVars
    /\ UNCHANGED versionVars

\* play.go:81, play.go:184-187: Scan returns false, with or without an error
EndOfStream ==
    /\ pc = "loop"
    /\ pc' = "done"
    /\ \E readErr \in BOOLEAN :
          result' = IF readErr THEN "err_read" ELSE "ok"
    /\ Deferred
    /\ UNCHANGED returnVars
    /\ UNCHANGED buildVars
    /\ UNCHANGED versionVars

\* time passes while the loop waits for a line
Tick ==
    /\ pc = "loop"
    /\ now < ClockMax
    /\ now' = now + 1
    /\ UNCHANGED <<pc, result>>
    /\ UNCHANGED <<item, pos, lastProgressUpdate, skippableSegments, out,
                   sinceReport, seekPending, reportGap, histVars>>
    /\ UNCHANGED buildVars
    /\ UNCHANGED versionVars

\* play.go:81-183: one line is read and handled
HandleLine(l) ==
    \/ SkipLine(l)
    \/ PropertyChange(l)
    \/ StartFile(l)
    \/ Seek(l)
    \/ EndFileOrShutdown(l)
    \/ Ignored(l)

Next ==
    \/ Create
    \/ Observe
    \/ PlayFile
    \/ AppendFile
    \/ AppendDone
    \/ PrependFile
    \/ PrependDone
    \/ \E l \in Lines : SkipLine(l)
    \/ \E l \in Lines : PropertyChange(l)
    \/ \E l \in Lines : StartFile(l)
    \/ \E l \in Lines : Seek(l)
    \/ \E l \in Lines : EndFileOrShutdown(l)
    \/ \E l \in Lines : Ignored(l)
    \/ EndOfStream
    \/ Tick

Spec == Init /\ [][Next]_vars

\* a short session: Play with no time passing while the loop waits
NextShort ==
    \/ Create
    \/ Observe
    \/ PlayFile
    \/ AppendFile
    \/ AppendDone
    \/ PrependFile
    \/ PrependDone
    \/ \E l \in Lines : SkipLine(l)
    \/ \E l \in Lines : PropertyChange(l)
    \/ \E l \in Lines : StartFile(l)
    \/ \E l \in Lines : Seek(l)
    \/ \E l \in Lines : EndFileOrShutdown(l)
    \/ \E l \in Lines : Ignored(l)
    \/ EndOfStream

InitSeeks == InitN(MaxItems, {"seeks"})

SpecSeeks == InitSeeks /\ [][NextShort]_vars

InitLossy == InitN(MaxItems, {"lossy"})

SpecLossy == InitLossy /\ [][NextShort]_vars

InitItems == InitN(MaxItems, {"items"})

SpecItems == InitItems /\ [][NextShort]_vars

InitTeardown == InitN(MaxItems, {"teardown"})

SpecTeardown == InitTeardown /\ [][NextShort]_vars

InitRetry == InitN(MaxItems, {"retry"})

SpecRetry == InitRetry /\ [][Next]_vars

NextBuild ==
    \/ Create
    \/ Observe
    \/ PlayFile
    \/ AppendFile
    \/ AppendDone
    \/ PrependFile
    \/ PrependDone

SpecBuild == InitBuild /\ [][NextBuild]_vars

\* the start-file events of a player that was sent up to MaxBuildItems commands
SlotLines == { Msg("start-file", "", NilData, k) : k \in (-1)..(MaxBuildItems + 1) }

\* the playlist build followed by start-file events
NextSlots ==
    \/ Create
    \/ Observe
    \/ PlayFile
    \/ AppendFile
    \/ AppendDone
    \/ PrependFile
    \/ PrependDone
    \/ \E l \in SlotLines : StartFile(l)

SpecSlots == InitBuild /\ [][NextSlots]_vars

\* mpv.go:19: the version gate is evaluated on the player's banner
InitVersion ==
    /\ pc = "isOldMpv"
    /\ version \in Banners(MaxVersionLen)
    /\ isOld = FALSE
    /\ result = "none"
    /\ env = "plain"
    /\ nItems = 1
    /\ index = 0
    /\ oldMpv = FALSE
    /\ playlistIDs = <<>>
    /\ i = 0
    /\ written = <<>>
    /\ sendFailed = FALSE
    /\ item = NoItem
    /\ pos = 0
    /\ lastProgressUpdate = 0
    /\ skippableSegments = [k \in {} |-> 0]
    /\ now = 0
    /\ out = <<>>
    /\ sinceReport = NoTime
    /\ seekPending = FALSE
    /\ reportGap = NoTime
    /\ failedReports = 0
    /\ teardown = <<>>
    /\ lastIgnored = FALSE
    /\ wasCurrent = {}
    /\ seekTarget = 0
    /\ startedSinceStop = FALSE
    /\ posStale = FALSE
    /\ atTarget = FALSE

IsOldMpv ==
    /\ pc = "isOldMpv"
    /\ pc' = "isOldMpvDone"
    /\ isOld' = isOldMpv(version)
    /\ UNCHANGED <<result, version>>
    /\ UNCHANGED buildVars
    /\ UNCHANGED loopVars

NextVersion == IsOldMpv

SpecVersion == InitVersion /\ [][NextVersion]_vars

\* ------------------------------------------------------------ properties

BuildDone == pc = "loop"

EffectsOf(o, t) == SelectSeq(o, LAMBDA e : e.t = t)

\* the lines that carry a numeric time-pos update
SkipTimePosLines == { l \in SkipLines : l.name = "time-pos" /\ l.data.t = "number" }
PlainTimePosLines == { l \in PlainLines : l.name = "time-pos" /\ l.data.t = "number" }
TimePosLines ==
    IF env \in {"skip", "seeks", "items"} THEN SkipTimePosLines ELSE PlainTimePosLines

\* a numeric time-pos update is handled in this step
TimePosUpdate(l) ==
    /\ l.name = "time-pos"
    /\ l.data.t = "number"
    /\ PropertyChange(l)

\* the item and the mode of the k-th loadfile command, for nItems items and
\* start index `index`
ExpectedItem(k) ==
    IF k = 1 THEN index
    ELSE IF k <= nItems - index THEN index + k - 1
    ELSE nItems - k

ExpectedMode(k) ==
    IF k = 1 THEN "replace"
    ELSE IF k <= nItems - index THEN "append"
    ELSE "insert-at"

\* C1: on a non-old player with every send succeeding, the build issues
\* exactly n loadfile commands: replace for item s, append for s+1..n-1
\* ascending, insert-at for s-1..0 descending; slot k of the slot map holds
\* the item of the k-th command, and the map is a bijection 1..n -> 0..n-1.
C1_LoadOrder ==
    (BuildDone /\ ~oldMpv /\ ~sendFailed) =>
        /\ Len(written) = nItems
        /\ \A k \in 1..nItems :
              /\ written[k].op = "loadfile"
              /\ written[k].mode = ExpectedMode(k)
              /\ written[k].url = ExpectedItem(k)
        /\ Len(playlistIDs) = nItems
        /\ \A k \in 1..nItems : playlistIDs[k] = written[k].url
        /\ { playlistIDs[k] : k \in 1..nItems } = 0..(nItems - 1)

C1_Witness ==
    /\ BuildDone /\ ~oldMpv /\ ~sendFailed
    /\ nItems = 4 /\ index = 2
    /\ playlistIDs = <<2, 3, 1, 0>>
    /\ written[3].mode = "insert-at"

\* C2 (as claimed): a start-file event whose slot is not a key of the slot
\* map (too large, 0 or negative) ends the session with the unknown-slot
\* error and no report; a slot in 1..len(map) makes items[slotMap[k]] current
\* and the session continues.
C2_UnknownSlotIsError ==
    [][\A l \in Lines :
          StartFile(l) =>
             IF l.id \in 1..Len(playlistIDs)
             THEN pc' = "loop" /\ item' = playlistIDs[l.id]
             ELSE /\ pc' = "done"
                  /\ result' = "err_unknown_playlist_id"
                  /\ out' = <<>>]_vars

\* the fetched segments in seconds
SegmentsInSeconds(fetched) ==
    [k \in { ticksToSeconds(t) : t \in DOMAIN fetched } |->
        ticksToSeconds(fetched[CHOOSE t \in DOMAIN fetched : ticksToSeconds(t) = k])]

\* C3 (as claimed): after a start-file event is handled the skip-segment set
\* is exactly the set fetched for the started item; nothing of an earlier
\* item remains.
C3_SegmentsReplaced ==
    [][\A l \in Lines, startOk \in BOOLEAN, f \in FetchOutcomes, subOk \in SubtitleOutcomes :
          (StartFileWith(l, startOk, f[1], f[2], subOk) /\ pc' = "loop")
             => skippableSegments' = SegmentsInSeconds(f[2])]_vars

Contains(segments, s, p) == s <= p /\ p < segments[s]

\* C4: for a time-pos value p >= 0 and stored segments with 0 <= start < end,
\* a seek is sent iff some stored segment has start <= p < end; then exactly
\* one seek is sent, absolute, to the end of a segment containing p.
C4_SeekIffInside ==
    [][\A l \in TimePosLines :
          ( /\ TimePosUpdate(l)
            /\ l.data.v >= 0
            /\ \A s \in DOMAIN skippableSegments : 0 <= s /\ s < skippableSegments[s] )
          => LET p == l.data.v
                 seeks == EffectsOf(out', "seek")
             IN  /\ (Len(seeks) > 0) <=>
                        (\E s \in DOMAIN skippableSegments : Contains(skippableSegments, s, p))
                 /\ Len(seeks) <= 1
                 /\ \A k \in 1..Len(seeks) :
                       /\ seeks[k].arg = "absolute"
                       /\ \E s \in DOMAIN skippableSegments :
                             /\ Contains(skippableSegments, s, p)
                             /\ seeks[k].v = skippableSegments[s]]_vars

\* a seek was sent for a position inside two stored segments with different ends
C4_Witness ==
    /\ pc = "loop"
    /\ Len(EffectsOf(out, "seek")) = 1
    /\ \E s, u \in DOMAIN skippableSegments :
          /\ Contains(skippableSegments, s, pos)
          /\ Contains(skippableSegments, u, pos)
          /\ skippableSegments[s] # skippableSegments[u]
          /\ EffectsOf(out, "seek")[1].v = skippableSegments[s]

\* C5: between two successful progress reports with no seek event between
\* them at least 3 seconds elapse; 1 or 2 seconds after a successful report
\* a time-pos update sends no progress report, 4 seconds after it sends one.
C5_Debounce ==
    [][\A l \in TimePosLines :
          (TimePosUpdate(l) /\ sinceReport # NoTime)
          => LET reports == EffectsOf(out', "progress")
                 elapsed == now - sinceReport
             IN  /\ (\E k \in 1..Len(reports) : reports[k].ok) => elapsed >= 3
                 /\ elapsed \in 1..2 => Len(reports) = 0
                 /\ elapsed >= 4 => Len(reports) = 1]_vars

\* the last progress report succeeded 3 or more seconds after the one before
\* it, with no seek event between them
C5_Witness ==
    /\ pc = "loop"
    /\ reportGap # NoTime
    /\ reportGap >= 3
    /\ \E k \in 1..Len(out) : out[k].t = "progress" /\ out[k].ok

\* C6: after a seek event the next numeric time-pos update attempts a progress
\* report for the current item, however little time has passed, also when
\* the update sends a skip seek.
C6_SeekForcesReport ==
    [][\A l \in TimePosLines :
          (TimePosUpdate(l) /\ seekPending)
          => \E k \in 1..Len(out') :
                /\ out'[k].t = "progress"
                /\ out'[k].item = item
                /\ out'[k].v = secondsToTicks(l.data.v)]_vars

\* right after a seek event, in a session whose clock has not advanced, an
\* update sent both a skip seek and a progress report
C6_Witness ==
    /\ pc = "loop"
    /\ now = 0
    /\ Len(EffectsOf(out, "seek")) = 1
    /\ Len(EffectsOf(out, "progress")) = 1

\* the line handled last was a shutdown event
AfterShutdown ==
    /\ pc = "loop"
    /\ Len(out) = 1
    /\ out[1].t = "stop"
    /\ out[1].arg = "shutdown"

\* C7 (as claimed): once a shutdown event is handled no further line is
\* handled; the stream ending without a read error returns no error, a read
\* error is returned wrapped.
C7_ShutdownEndsLoop ==
    [][ /\ AfterShutdown => ~(\E l \in Lines : HandleLine(l))
        /\ EndOfStream => result' \in {"ok", "err_read"} ]_vars

\* C8 (as claimed): the slot map is as long as the number of loadfile
\* commands issued to the player so far, also on an old player and when a
\* send fails.
C8_MapLengthIsIssued == Len(playlistIDs) = Len(written)

\* the player's playlist after one loadfile command (mpv's loadfile: replace
\* clears the playlist, append adds at the end, insert-at adds at the index)
PlayerLoad(list, cmd) ==
    IF cmd.mode = "replace" THEN <<cmd.url>>
    ELSE IF cmd.mode = "append" THEN Append(list, cmd.url)
    ELSE SubSeq(list, 1, cmd.idx) \o <<cmd.url>> \o SubSeq(list, cmd.idx + 1, Len(list))

RECURSIVE PlayerPlaylist(_)
PlayerPlaylist(cmds) ==
    IF Len(cmds) = 0 THEN <<>>
    ELSE PlayerLoad(PlayerPlaylist(SubSeq(cmds, 1, Len(cmds) - 1)), cmds[Len(cmds)])

\* the item the player plays: the one of the last replace
RECURSIVE PlayerPlaying(_)
PlayerPlaying(cmds) ==
    IF Len(cmds) = 0 THEN NoItem
    ELSE IF cmds[Len(cmds)].mode = "replace" THEN cmds[Len(cmds)].url
    ELSE PlayerPlaying(SubSeq(cmds, 1, Len(cmds) - 1))

\* C9: on a non-old player executing the commands in order, every send
\* succeeding, after the build the playlist in position order is items
\* 0..n-1 and the item played is item s.
C9_PlaylistInOrder ==
    (BuildDone /\ ~oldMpv /\ ~sendFailed) =>
        /\ PlayerPlaylist(written) = [k \in 1..nItems |-> k - 1]
        /\ PlayerPlaying(written) = index

C9_Witness ==
    /\ BuildDone /\ ~oldMpv /\ ~sendFailed
    /\ index >= 1 /\ index + 1 < nItems
    /\ PlayerPlaylist(written) = [k \in 1..nItems |-> k - 1]
    /\ PlayerPlaying(written) = index

\* the banner carries a version that, stripped, is three integers
ThreeIntegers(banner) ==
    /\ ~banner.err /\ banner.newline /\ Len(banner.fields) >= 2
    /\ LET parts == Split(VersionCore(banner.fields[2]), ".")
       IN  Len(parts) = 3 /\ \A k \in 1..3 : AtoiOk(parts[k])

LexLess(a, b) ==
    \/ a[1] < b[1]
    \/ a[1] = b[1] /\ a[2] < b[2]
    \/ a[1] = b[1] /\ a[2] = b[2] /\ a[3] < b[3]

\* C10: for a version that strips to three integers the old-player flag is
\* true iff (major, minor, patch) is lexicographically below (0, 38, 0).
C10_OldIffBelow ==
    (pc = "isOldMpvDone" /\ ThreeIntegers(version)) =>
        LET parts == Split(VersionCore(version.fields[2]), ".")
        IN  isOld <=> LexLess(<<Atoi(parts[1]), Atoi(parts[2]), Atoi(parts[3])>>,
                              <<0, 38, 0>>)

C10_Witness ==
    /\ pc = "isOldMpvDone"
    /\ ThreeIntegers(version)
    /\ version.fields[2] = <<"0", ".", "3", "7", ".", "0">>
    /\ isOld

\* C11 (as claimed): for every banner that fails to parse (command failure,
\* no line end, fewer than two fields, not exactly three components, or some
\* component that is not an integer, whatever the others are) the old-player
\* flag is false.
C11_ParseFailureNotOld ==
    (pc = "isOldMpvDone" /\ ~ThreeIntegers(version)) => ~isOld

\* the commands written in this step
NewlyWritten == SubSeq(written', Len(written) + 1, Len(written'))

\* C12: on an old player no insert-at command is ever written (prepend is
\* refused: nothing is written and no failure is seen by its caller) and
\* every replace / append loadfile is written without the index argument; on
\* a non-old player every loadfile command carries index 0.
C12_VersionGate ==
    [][ /\ \A k \in 1..Len(NewlyWritten) :
              LET cmd == NewlyWritten[k]
              IN  /\ cmd.op = "loadfile"
                  /\ oldMpv' => cmd.mode \in {"replace", "append"} /\ cmd.idx = NoIndex
                  /\ ~oldMpv' => cmd.mode \in {"replace", "append", "insert-at"} /\ cmd.idx = 0
        /\ (PrependFile /\ oldMpv) => written' = written /\ sendFailed' = sendFailed
      ]_vars

\* an old player after a build that appended and refused to prepend
C12_Witness ==
    /\ BuildDone /\ oldMpv /\ ~sendFailed
    /\ index >= 1 /\ index + 1 < nItems
    /\ Len(written) = nItems - index
    /\ written[1].mode = "replace" /\ written[1].idx = NoIndex
    /\ written[2].mode = "append" /\ written[2].idx = NoIndex

\* the results of Play that are a returned error
ErrorResults == { r \in {result, result'} : r \notin {"none", "ok", "panic"} }

\* a failure that is only logged leaves Play running: the build loops go on
\* to the next item, and the event loop is left only at the end of the
\* stream or by a start-file event whose slot is not in 1..len(map)
LoggedFailuresContinue ==
    /\ pc = "append" =>
          /\ pc' \in {"append", "prepend"} /\ result' = "none"
          /\ i < nItems => i' = i + 1
    /\ pc = "prepend" =>
          /\ pc' \in {"prepend", "loop"} /\ result' = "none"
          /\ i >= 0 => i' = i - 1
    /\ (pc = "loop" /\ pc' # "loop") =>
          \/ EndOfStream
          \/ \E l \in Lines :
                l.event = "start-file" /\ l.id \notin 1..Len(playlistIDs) /\ StartFile(l)

\* Play returns the unknown-slot error in this step
UnknownSlotReturn ==
    /\ result' = "err_unknown_playlist_id"
    /\ \E l \in Lines : l.event = "start-file" /\ l.id > Len(playlistIDs) /\ StartFile(l)

C14_FailedReportRetried ==
    [][ /\ \A l \in TimePosLines :
              TimePosUpdate(l) =>
                 LET reports == EffectsOf(out', "progress")
                 IN  /\ (\E k \in 1..Len(reports) : ~reports[k].ok) =>
                           /\ lastProgressUpdate' = lastProgressUpdate
                           /\ pc' = "loop" /\ result' = "none"
                     /\ failedReports > 0 =>
                           /\ Len(reports) = 1
                           /\ reports[1].item = item
                           /\ reports[1].v = secondsToTicks(l.data.v)
        /\ (pc = "loop" /\ lastProgressUpdate' # lastProgressUpdate) =>
              \/ /\ \E k \in 1..Len(out') : out'[k].t = "progress" /\ out'[k].ok
                 /\ lastProgressUpdate' = now'
                 /\ lastProgressUpdate' > lastProgressUpdate
              \/ /\ \E l \in Lines : Seek(l)
                 /\ lastProgressUpdate' = ZeroTime ]_vars

\* a progress report failed, and the report attempted by a later update
\* failed too, the timestamp still being the one that made the first due
C14_Witness ==
    /\ pc = "loop"
    /\ failedReports = 2
    /\ lastProgressUpdate # ZeroTime
    /\ DebounceElapsed(now, lastProgressUpdate)
    /\ \E k \in 1..Len(out) : out[k].t = "progress" /\ ~out[k].ok

\* C15: on every exit of Play after the player was created (end of stream,
\* error return, panic) close has run exactly once and has attempted, in this
\* order, closing the socket, interrupting the subprocess, waiting for it and
\* removing the socket path, whichever of them failed; it has not run when
\* creating the player failed, nor while Play is running.
C15_CloseRunsOnce ==
    /\ (pc = "done" /\ result # "err_create") =>
          [k \in 1..Len(teardown) |-> teardown[k].step]
             = <<"close", "interrupt", "wait", "remove">>
    /\ (pc = "done" /\ result = "err_create") => teardown = <<>>
    /\ pc # "done" => teardown = <<>>

\* Play returned the unknown-slot error and the first two teardown steps failed
C15_Witness ==
    /\ pc = "done"
    /\ result = "err_unknown_playlist_id"
    /\ Len(teardown) = 4
    /\ ~teardown[1].ok /\ ~teardown[2].ok
    /\ teardown[4].step = "remove"

\* a line that Play skips or ignores: empty, malformed, of an unrecognised
\* event kind, a change of a property other than time-pos, or a time-pos
\* change with absent or non-numeric data
IsIgnoredLine(l) ==
    \/ l.kind \in {"empty", "malformed"}
    \/ l.event \notin {"property-change", "start-file", "seek", "end-file", "shutdown"}
    \/ l.event = "property-change" /\ (l.name # "time-pos" \/ l.data.t # "number")

SkipIgnoredLines == { l \in SkipLines : IsIgnoredLine(l) }
PlainIgnoredLines == { l \in PlainLines : IsIgnoredLine(l) }
IgnoredLines ==
    IF env \in {"skip", "seeks", "items"} THEN SkipIgnoredLines ELSE PlainIgnoredLines

\* C16: handling an empty line, a malformed line, a line of an unrecognised
\* event kind, a change of a property other than time-pos, or a time-pos
\* change with absent or non-numeric data leaves the current item, the
\* position, the last-report timestamp, the skip segments and the slot map
\* unchanged, sends no command, makes no report, and the loop goes on.
C16_IgnoredLinesChangeNothing ==
    [][\A l \in IgnoredLines :
          HandleLine(l) =>
             /\ UNCHANGED <<item, pos, lastProgressUpdate, skippableSegments, playlistIDs>>
             /\ out' = <<>>
             /\ pc' = "loop" /\ result' = "none"]_vars

\* an ignored line was handled last, in a session that has changed item,
\* received a position and handled a seek event
C16_Witness ==
    /\ pc = "loop"
    /\ lastIgnored
    /\ out = <<>>
    /\ item # index
    /\ pos > 0
    /\ lastProgressUpdate = ZeroTime

\* C17 (as claimed): the player numbering the loadfile commands it receives
\* 1, 2, 3, ..., a start-file event for the slot of a command sent by Play
\* makes the item that command loaded the current item, also after a failed
\* append or insert-at send and on an old player.
C17_SlotResolvesToLoaded ==
    [][\A l \in SlotLines :
          (l.id \in 1..Len(written) /\ StartFile(l)) =>
             /\ pc' = "loop"
             /\ item' = written[l.id].url]_vars

\* the reports among the effects of the last handler
ReportsOf(o) == SelectSeq(o, LAMBDA e : e.t \in {"start", "progress", "stop"})

\* C18 (as claimed): a start, progress or stop report for an item carries a
\* position received in a time-pos event while that item was current, or 0 if
\* none was received since it became current; so while the current item is
\* current for the first time and no position has been received for it, every
\* report carries 0.
C18_ReportsCarryOwnPosition ==
    [][posStale' =>
          \A k \in 1..Len(ReportsOf(out')) : ReportsOf(out')[k].v = 0]_vars

\* C19: the target of a skip seek sent for a time-pos value p is greater than
\* p, and an update whose value is the target of the seek sent by the update
\* before it sends no seek for a segment ending there: it sends a seek only
\* to the end, beyond it, of another stored segment that contains it.
C19_SeekMovesForward ==
    [][\A l \in TimePosLines :
          TimePosUpdate(l) =>
             LET p == l.data.v
                 seeks == EffectsOf(out', "seek")
             IN  \A k \in 1..Len(seeks) :
                    /\ seeks[k].v > p
                    /\ (seekTarget # 0 /\ p = seekTarget) =>
                          \E s \in DOMAIN skippableSegments :
                             /\ Contains(skippableSegments, s, p)
                             /\ skippableSegments[s] # seekTarget
                             /\ seeks[k].v = skippableSegments[s]]_vars

\* the update after a skip seek carried the seek's target and sent no seek
C19_Witness ==
    /\ pc = "loop"
    /\ atTarget
    /\ seekTarget = 0
    /\ EffectsOf(out, "seek") = <<>>
    /\ \E s \in DOMAIN skippableSegments : skippableSegments[s] = pos

\* C20 (as claimed): every stop report is for an item for which a start report
\* was attempted earlier, and at most one stop report is sent between two
\* start reports: a stop report is sent only when a start report has been
\* attempted since the last stop report (or since the session began).
C20_StopFollowsStart ==
    [][\A l \in Lines :
          (l.event \in {"end-file", "shutdown"} /\ EndFileOrShutdown(l)) =>
             startedSinceStop]_vars

====
